---- MODULE Spec2Model ----
(***************************************************************************)
(* Agenda back end: the Express handlers of src/index.js over the two      *)
(* mongoose collections User and Event.                                    *)
(*                                                                         *)
(* A handler runs until its next await on the database; each action below  *)
(* is one such turn: one database operation together with the pure work    *)
(* (bcrypt, building the response) that surrounds it.  Handlers of         *)
(* different requests interleave at those awaits.  A handler with one      *)
(* database operation is one action; register (findOne, save) and the      *)
(* account deletion (findById, deleteMany, findByIdAndDelete) are kept in  *)
(* `pending` between their turns.                                          *)
(*                                                                         *)
(* Spec is src/index.js.  SpecLegacy is the earlier variant of the same    *)
(* server, src/unnamed/part_000, whose user routes do not use bcrypt.      *)
(* src/unnamed/part_001 repeats lines 1-106 of src/index.js and has no     *)
(* behaviour of its own.                                                   *)
(***************************************************************************)
EXTENDS Integers, Sequences, FiniteSets, Bags

VARIABLES users, events, nextUserId, nextEventId, pending, last

vars == <<users, events, nextUserId, nextEventId, pending, last>>

\* ---------------------------------------------------------------- bounds
\* How many User documents are ever inserted, how many Event documents are
\* ever inserted, how many multi-turn handlers are in flight at once.
MaxUsers == 2
MaxEvents == 2
MaxInFlight == 2

\* ---------------------------------------------------------------- inputs
\* The people who register: a name with its date of birth.
People == {[name |-> "Ana", birthDate |-> "2000-01-01"],
           [name |-> "Bia", birthDate |-> "2000-01-02"]}
Emails == {"a@x", "b@x"}
Passwords == {"p1", "p2"}
\* The salts bcrypt.genSalt draws from.
Salts == {"s1"}
BirthDateInputs == {"2000-01-01", "2000-01-02"}
DateTimeInputs == {"2030-01-01T10:00", "2030-01-02T10:00"}
EventNames == {"show"}
Venues == {"hall"}
\* The ObjectIds a client may send: those the server hands out, whether or
\* not a document with that id exists (yet, or any more). Request bodies are
\* complete and every id is a well-formed ObjectId.
UserIds == 1..MaxUsers
EventIds == 1..MaxEvents

\* ------------------------------------------------------- pure functions
\* new Date(string): the timestamp of a date string, here the day number.
NewDate(s) ==
    CASE s = "2000-01-01" -> 1
      [] s = "2000-01-02" -> 2
      [] s = "2030-01-01T10:00" -> 1
      [] s = "2030-01-02T10:00" -> 2

\* bcrypt.hash(password, salt): the salt is part of the output string and the
\* digest depends on both arguments.
bcryptHash(password, salt) ==
    CASE password = "p1" /\ salt = "s1" -> "$2b$10$s1.d11"
      [] password = "p1" /\ salt = "s2" -> "$2b$10$s2.d12"
      [] password = "p2" /\ salt = "s1" -> "$2b$10$s1.d21"
      [] password = "p2" /\ salt = "s2" -> "$2b$10$s2.d22"

HashStrings == {bcryptHash(p, s) : p \in Passwords, s \in Salts}

\* The salt bcrypt.compare reads back out of a hash string.
SaltOf(hash) == CHOOSE s \in Salts : \E p \in Passwords : bcryptHash(p, s) = hash

\* A comparison that accepts every password.
CompareAlwaysTrue(password, hash) == TRUE

\* bcrypt.compare(password, hash): false on a string that is no bcrypt hash,
\* otherwise re-hashes the password with the hash's salt and compares.
bcryptCompare(password, hash) ==
    /\ hash \in HashStrings
    /\ bcryptHash(password, SaltOf(hash)) = hash

\* ------------------------------------------------------------ documents
Null == [null |-> TRUE]

\* `last` of a turn that sent no response.
NoResponse == [op |-> "none", status |-> 0]

Response(op, status, body) == [op |-> op, status |-> status, body |-> body]

\* User.findOne({ email })
FindOneByEmail(us, email) ==
    IF \E u \in us : u.email = email
    THEN CHOOSE u \in us : u.email = email
    ELSE Null

\* User.findOne({ email, birthDate })
FindOneByEmailBirthDate(us, email, birthDate) ==
    IF \E u \in us : u.email = email /\ u.birthDate = birthDate
    THEN CHOOSE u \in us : u.email = email /\ u.birthDate = birthDate
    ELSE Null

\* User.findById(id)
FindById(us, id) ==
    IF \E u \in us : u._id = id
    THEN CHOOSE u \in us : u._id = id
    ELSE Null

\* The handlers suspended at an await, as a bag of their continuations.
Suspend(k) == pending (+) SetToBag({k})

Resume(k) == pending (-) SetToBag({k})

InFlight == BagCardinality(pending)

PendingRegisters == BagCardinality([k \in {j \in BagToSet(pending) : j.op = "register"} |-> pending[k]])

ServerError(reason) == [message |-> "Erro no servidor", error |-> reason]

Init ==
    /\ users = {}
    /\ events = {}
    /\ nextUserId = 1
    /\ nextEventId = 1
    /\ pending = EmptyBag
    /\ last = NoResponse

\* ------------------------------------------------- POST /api/users/register
\* A collection without the index.
UniqueIndexOff(us, email) == TRUE

\* The unique index on email (unique: true): an insert of a second document
\* with the same email is rejected with a duplicate-key error.
UniqueIndexAllows(us, email) == \A u \in us : u.email # email

\* A pre-check that finds nobody.
FindOneNever(us, email) == Null

\* The pre-check of the register handler.
ExistingUser(us, email) == FindOneByEmail(us, email)

\* First turn: the pre-check. An existing user answers 400; otherwise the
\* handler goes on to hash and save.
RegisterFindOne(name, email, password, birthDate) ==
    /\ IF ExistingUser(users, email) # Null
       THEN /\ last' = Response("register", 400, [message |-> "Email ja esta em uso."])
            /\ UNCHANGED pending
       ELSE /\ InFlight < MaxInFlight
            /\ nextUserId + PendingRegisters <= MaxUsers
            /\ pending' = Suspend([op |-> "register", pc |-> "save", name |-> name,
                                   email |-> email, password |-> password,
                                   birthDate |-> birthDate])
            /\ last' = NoResponse
    /\ UNCHANGED <<users, events, nextUserId, nextEventId>>

\* Second turn: genSalt, hash, new User, save. The save throws when the
\* unique index rejects the email, and the catch answers 500.
RegisterSave(k) ==
    /\ k.op = "register"
    /\ \E salt \in Salts :
          LET newUser == [_id |-> nextUserId, name |-> k.name, email |-> k.email,
                          password |-> bcryptHash(k.password, salt),
                          birthDate |-> NewDate(k.birthDate)]
          IN IF UniqueIndexAllows(users, k.email)
             THEN /\ users' = users \cup {newUser}
                  /\ nextUserId' = nextUserId + 1
                  /\ last' = Response("register", 201,
                                      [message |-> "Utilizador criado com sucesso!"])
             ELSE /\ last' = Response("register", 500, ServerError("E11000 duplicate key"))
                  /\ UNCHANGED <<users, nextUserId>>
    /\ pending' = Resume(k)
    /\ UNCHANGED <<events, nextEventId>>

\* ---------------------------------------------------- POST /api/users/login
\* An answer that tells an unknown email from a wrong password.
LoginNoUserDistinct == [status |-> 404, body |-> [message |-> "Email desconhecido."]]

\* if (!user)
LoginNoUser == [status |-> 401, body |-> [message |-> "Email ou senha invalidos."]]

\* if (!isMatch)
LoginNoMatch == [status |-> 401, body |-> [message |-> "Email ou senha invalidos."]]

\* res.status(200).json({ id, name, email })
LoginOk(user) ==
    [status |-> 200, body |-> [id |-> user._id, name |-> user.name, email |-> user.email]]

\* What the login handler answers on the collection `us`.
LoginResult(us, email, password) ==
    LET user == FindOneByEmail(us, email)
    IN IF user = Null THEN LoginNoUser
       ELSE IF ~bcryptCompare(password, user.password) THEN LoginNoMatch
       ELSE LoginOk(user)

Login(email, password) ==
    /\ LET r == LoginResult(users, email, password)
       IN last' = Response("login", r.status, r.body)
    /\ UNCHANGED <<users, events, nextUserId, nextEventId, pending>>

\* ------------------------------------------ POST /api/users/verify-identity
VerifyIdentity(email, birthDate) ==
    /\ LET user == FindOneByEmailBirthDate(users, email, NewDate(birthDate))
       IN IF user = Null
          THEN last' = Response("verifyIdentity", 404, [message |-> "Dados nao encontrados."])
          ELSE last' = Response("verifyIdentity", 200, [userId |-> user._id])
    /\ UNCHANGED <<users, events, nextUserId, nextEventId, pending>>

\* ------------------------------------------- POST /api/users/reset-password
\* An update that is not written.
UpdateLost(us, id, password) == us

\* User.findByIdAndUpdate(id, { password }): the collection afterwards.
FindByIdAndUpdate(us, id, password) ==
    {IF u._id = id THEN [u EXCEPT !.password = password] ELSE u : u \in us}

\* updatedUser is the document findByIdAndUpdate found, null if there is none.
ResetPassword(userId, newPassword) ==
    /\ \E salt \in Salts :
          LET hashedPassword == bcryptHash(newPassword, salt)
              updatedUser == FindById(users, userId)
          IN /\ users' = FindByIdAndUpdate(users, userId, hashedPassword)
             /\ IF updatedUser = Null
                THEN last' = Response("resetPassword", 404,
                                      [message |-> "Utilizador nao encontrado."])
                ELSE last' = Response("resetPassword", 200,
                                      [message |-> "Senha redefinida com sucesso!"])
    /\ UNCHANGED <<events, nextUserId, nextEventId, pending>>

\* ----------------------------------------------- DELETE /api/users/me/:id
\* Event.deleteMany({ userId }): the collection afterwards.
DeleteMany(es, userId) == {e \in es : e.userId # userId}

\* User.findByIdAndDelete(id): the collection afterwards.
FindByIdAndDeleteUser(us, id) == {u \in us : u._id # id}

\* First turn: findById and the password check. 404 and 401 end the request.
DeleteAccountFindById(userId, password) ==
    /\ LET user == FindById(users, userId)
       IN IF user = Null
          THEN /\ last' = Response("deleteAccount", 404,
                                   [message |-> "Utilizador nao encontrado."])
               /\ UNCHANGED pending
          ELSE IF ~bcryptCompare(password, user.password)
          THEN /\ last' = Response("deleteAccount", 401, [message |-> "Senha incorreta."])
               /\ UNCHANGED pending
          ELSE /\ InFlight < MaxInFlight
               /\ pending' = Suspend([op |-> "deleteAccount", pc |-> "deleteMany",
                                      userId |-> userId])
               /\ last' = NoResponse
    /\ UNCHANGED <<users, events, nextUserId, nextEventId>>

\* Second turn: await Event.deleteMany({ userId })
DeleteAccountDeleteMany(k) ==
    /\ k.op = "deleteAccount"
    /\ k.pc = "deleteMany"
    /\ events' = DeleteMany(events, k.userId)
    /\ pending' = Resume(k) (+) SetToBag({[k EXCEPT !.pc = "findByIdAndDelete"]})
    /\ last' = NoResponse
    /\ UNCHANGED <<users, nextUserId, nextEventId>>

\* Third turn: await User.findByIdAndDelete(userId), then 200.
DeleteAccountDeleteUser(k) ==
    /\ k.op = "deleteAccount"
    /\ k.pc = "findByIdAndDelete"
    /\ users' = FindByIdAndDeleteUser(users, k.userId)
    /\ pending' = Resume(k)
    /\ last' = Response("deleteAccount", 200, [message |-> "Conta apagada com sucesso."])
    /\ UNCHANGED <<events, nextUserId, nextEventId>>

\* ------------------------------------------------------ POST /api/events
\* new Event({...}).save(): userId is an ObjectId with ref 'User'; mongoose
\* does not look the referenced document up.
CreateEvent(userId, eventName, venue, dateTime) ==
    /\ nextEventId <= MaxEvents
    /\ LET newEvent == [_id |-> nextEventId, userId |-> userId, eventName |-> eventName,
                        venue |-> venue, dateTime |-> NewDate(dateTime)]
       IN /\ events' = events \cup {newEvent}
          /\ last' = Response("createEvent", 201, newEvent)
    /\ nextEventId' = nextEventId + 1
    /\ UNCHANGED <<users, nextUserId, pending>>

\* ------------------------------------------------ GET /api/events/:userId
\* Event.find({ userId })
Find(es, userId) == {e \in es : e.userId = userId}

\* The opposite order.
SortDesc(q) == \A i \in 1..(Len(q) - 1) : q[i].dateTime >= q[i + 1].dateTime

\* .sort({ dateTime: 'asc' }): what holds of the returned sequence.
SortAsc(q) == \A i \in 1..(Len(q) - 1) : q[i].dateTime <= q[i + 1].dateTime

\* The sequences that list every document of S once.
Orderings(S) ==
    {q \in [1..Cardinality(S) -> S] : \A i, j \in 1..Cardinality(S) : q[i] = q[j] => i = j}

\* The order of documents with equal dateTime is the database's choice.
ListEvents(userId) ==
    /\ \E q \in Orderings(Find(events, userId)) :
          /\ SortAsc(q)
          /\ last' = Response("listEvents", 200, q)
    /\ UNCHANGED <<users, events, nextUserId, nextEventId, pending>>

\* ------------------------------------------------- DELETE /api/events/:id
DeleteEvent(id) ==
    /\ IF \E e \in events : e._id = id
       THEN /\ events' = {e \in events : e._id # id}
            /\ last' = Response("deleteEvent", 200, [message |-> "Evento apagado com sucesso."])
       ELSE /\ last' = Response("deleteEvent", 404, [message |-> "Evento nao encontrado."])
            /\ UNCHANGED events
    /\ UNCHANGED <<users, nextUserId, nextEventId, pending>>

\* ------------------------------------------------------------ index.js
Next ==
    \/ \E who \in People, e \in Emails, p \in Passwords :
          RegisterFindOne(who.name, e, p, who.birthDate)
    \/ \E k \in BagToSet(pending) : RegisterSave(k)
    \/ \E e \in Emails, p \in Passwords : Login(e, p)
    \/ \E e \in Emails, b \in BirthDateInputs : VerifyIdentity(e, b)
    \/ \E u \in UserIds, p \in Passwords : ResetPassword(u, p)
    \/ \E u \in UserIds, p \in Passwords : DeleteAccountFindById(u, p)
    \/ \E k \in BagToSet(pending) : DeleteAccountDeleteMany(k)
    \/ \E k \in BagToSet(pending) : DeleteAccountDeleteUser(k)
    \/ \E u \in UserIds, n \in EventNames, v \in Venues, d \in DateTimeInputs :
          CreateEvent(u, n, v, d)
    \/ \E u \in UserIds : ListEvents(u)
    \/ \E i \in EventIds : DeleteEvent(i)

Spec == Init /\ [][Next]_vars

\* Every handler but verify-identity: the runs in which no client asks for
\* an identity check.
NextNoVerify ==
    \/ \E who \in People, e \in Emails, p \in Passwords :
          RegisterFindOne(who.name, e, p, who.birthDate)
    \/ \E k \in BagToSet(pending) : RegisterSave(k)
    \/ \E e \in Emails, p \in Passwords : Login(e, p)
    \/ \E u \in UserIds, p \in Passwords : ResetPassword(u, p)
    \/ \E u \in UserIds, p \in Passwords : DeleteAccountFindById(u, p)
    \/ \E k \in BagToSet(pending) : DeleteAccountDeleteMany(k)
    \/ \E k \in BagToSet(pending) : DeleteAccountDeleteUser(k)
    \/ \E u \in UserIds, n \in EventNames, v \in Venues, d \in DateTimeInputs :
          CreateEvent(u, n, v, d)
    \/ \E u \in UserIds : ListEvents(u)
    \/ \E i \in EventIds : DeleteEvent(i)

SpecNoVerify == Init /\ [][NextNoVerify]_vars

\* ------------------------------------------- the variant without bcrypt
\* Second turn of register: new User({ name, email, password, birthDate }).save()
LegacyRegisterSave(k) ==
    /\ k.op = "register"
    /\ LET newUser == [_id |-> nextUserId, name |-> k.name, email |-> k.email,
                       password |-> k.password, birthDate |-> NewDate(k.birthDate)]
       IN IF UniqueIndexAllows(users, k.email)
          THEN /\ users' = users \cup {newUser}
               /\ nextUserId' = nextUserId + 1
               /\ last' = Response("register", 201,
                                   [message |-> "Utilizador criado com sucesso!"])
          ELSE /\ last' = Response("register", 500, ServerError("E11000 duplicate key"))
               /\ UNCHANGED <<users, nextUserId>>
    /\ pending' = Resume(k)
    /\ UNCHANGED <<events, nextEventId>>

\* User.findOne({ email, password })
FindOneByEmailPassword(us, email, password) ==
    IF \E u \in us : u.email = email /\ u.password = password
    THEN CHOOSE u \in us : u.email = email /\ u.password = password
    ELSE Null

LegacyLogin(email, password) ==
    /\ LET user == FindOneByEmailPassword(users, email, password)
       IN IF user = Null
          THEN last' = Response("login", 401, [message |-> "Email ou senha invalidos."])
          ELSE last' = Response("login", 200, [id |-> user._id, name |-> user.name,
                                                 email |-> user.email])
    /\ UNCHANGED <<users, events, nextUserId, nextEventId, pending>>

\* User.findByIdAndUpdate(userId, { password: newPassword })
LegacyResetPassword(userId, newPassword) ==
    /\ users' = FindByIdAndUpdate(users, userId, newPassword)
    /\ IF FindById(users, userId) = Null
       THEN last' = Response("resetPassword", 404,
                             [message |-> "Utilizador nao encontrado."])
       ELSE last' = Response("resetPassword", 200,
                             [message |-> "Senha redefinida com sucesso!"])
    /\ UNCHANGED <<events, nextUserId, nextEventId, pending>>

\* The routes of the variant; those not named Legacy have the same code as
\* in index.js.
NextLegacy ==
    \/ \E who \in People, e \in Emails, p \in Passwords :
          RegisterFindOne(who.name, e, p, who.birthDate)
    \/ \E k \in BagToSet(pending) : LegacyRegisterSave(k)
    \/ \E e \in Emails, p \in Passwords : LegacyLogin(e, p)
    \/ \E e \in Emails, b \in BirthDateInputs : VerifyIdentity(e, b)
    \/ \E u \in UserIds, p \in Passwords : LegacyResetPassword(u, p)
    \/ \E u \in UserIds, n \in EventNames, v \in Venues, d \in DateTimeInputs :
          CreateEvent(u, n, v, d)
    \/ \E u \in UserIds : ListEvents(u)
    \/ \E i \in EventIds : DeleteEvent(i)

SpecLegacy == Init /\ [][NextLegacy]_vars

\* ================================================================ claims

\* The stored hash is a hash of `password` under some salt.
IsHashOf(hash, password) == \E s \in Salts : hash = bcryptHash(password, s)

\* C1: once the account deletion of a user has answered 200, that user is no
\* longer found and no stored Event has that userId, so that ListEvents for
\* the id returns the empty list.
C1_DeleteRemovesUserAndEvents ==
    [][\A k \in BagToSet(pending) :
          DeleteAccountDeleteUser(k) =>
              /\ FindById(users', k.userId) = Null
              /\ Find(events', k.userId) = {}]_vars

\* C2: an account deletion for an unknown id answers 404 and one with a wrong
\* password answers 401; either ends the request there, and the User and the
\* Event collections are as they were.
C2_FailedDeleteDeletesNothing ==
    [][(last'.op = "deleteAccount" \/ pending' # pending) =>
       \A u \in UserIds, p \in Passwords :
          LET user == FindById(users, u)
          IN (/\ (user = Null \/ ~IsHashOf(user.password, p))
              /\ DeleteAccountFindById(u, p))
             => /\ last'.op = "deleteAccount"
                /\ last'.status = (IF user = Null THEN 404 ELSE 401)
                /\ pending' = pending
                /\ users' = users
                /\ events' = events]_vars

\* A deletion has just been refused with 401 while a stored user owns an event.
C2_Witness ==
    /\ last.op = "deleteAccount"
    /\ last.status = 401
    /\ \E e \in events : FindById(users, e.userId) # Null

\* C7: every stored Event's userId is the id of a stored User.
C7_NoEventWithoutOwner == \A e \in events : FindById(users, e.userId) # Null

\* C8: a ResetPassword changes a stored password only after a VerifyIdentity
\* that returned that user id; so in the runs without any VerifyIdentity no
\* ResetPassword changes the User collection.
C8_ResetOnlyAfterVerify ==
    [][\A u \in UserIds, p \in Passwords : ResetPassword(u, p) => users' = users]_vars

\* C9: no two stored User documents have the same email.
C9_EmailUnique == \A u, v \in users : u.email = v.email => u = v

\* Two registrations of one email raced, and the index rejected the second.
C9_Witness ==
    /\ last.op = "register"
    /\ last.status = 500
    /\ users # {}

\* C10: the stored password of every User document is a hash output and never
\* a secret as the client sent it.
C10_StoredPasswordIsHash ==
    \A u \in users : u.password \in HashStrings /\ u.password \notin Passwords

\* C3 as stated: after a successful ResetPassword(userId, newPassword) a Login
\* for that user's email succeeds with the new password and fails with every
\* password that logged in before the reset.
C3_ResetSwitchesLogin ==
    [][last'.op = "resetPassword" =>
       \A u \in UserIds, p \in Passwords :
          LET user == FindById(users, u)
          IN (user # Null /\ ResetPassword(u, p))
             => /\ LoginResult(users', user.email, p).status = 200
                /\ \A q \in Passwords :
                      LoginResult(users, user.email, q).status = 200
                      => LoginResult(users', user.email, q).status = 401]_vars

\* C3 amended: the new password logs in, every other password is refused
\* (the old one too, unless it is the new one), and that stays so over every
\* step that is neither a ResetPassword of that user nor the deletion of the
\* account.
C3_ResetSwitchesLoginUnlessSame ==
    [][/\ last'.op = "resetPassword" =>
          \A u \in UserIds, p \in Passwords :
             LET user == FindById(users, u)
             IN (user # Null /\ ResetPassword(u, p))
                => /\ LoginResult(users', user.email, p).status = 200
                   /\ \A q \in Passwords \ {p} :
                         LoginResult(users', user.email, q).status = 401
       /\ users' # users =>
          \A user \in users :
             (/\ FindById(users', user._id) # Null
              /\ ~\E p \in Passwords : ResetPassword(user._id, p))
             => \A q \in Passwords :
                   LoginResult(users', user.email, q) = LoginResult(users, user.email, q)]_vars

\* A reset has just answered 200 and a user logs in with one password and
\* not with the other.
C3_Witness ==
    /\ last.op = "resetPassword"
    /\ last.status = 200
    /\ \E u \in users, p, q \in Passwords :
          /\ LoginResult(users, u.email, p).status = 200
          /\ LoginResult(users, u.email, q).status = 401

\* C4: a Register whose email belongs to a stored User answers 400 whatever
\* the other fields are, goes no further, and leaves the User collection as
\* it was.
C4_DuplicateEmailRejected ==
    [][(last'.op = "register" \/ pending' # pending) =>
       \A who \in People, e \in Emails, p \in Passwords :
          (/\ \E u \in users : u.email = e
           /\ RegisterFindOne(who.name, e, p, who.birthDate))
          => /\ last'.op = "register"
             /\ last'.status = 400
             /\ pending' = pending
             /\ users' = users]_vars

\* A registration has just been refused with 400 while one user is stored.
C4_Witness ==
    /\ last.op = "register"
    /\ last.status = 400
    /\ Cardinality(users) = 1

\* C5: Login answers 200 with exactly the id, name and email of the stored
\* record when the email is that of a stored User and the password is the one
\* its hash was made from; every other Login, unknown email or wrong password,
\* gets one and the same 401 answer.
C5_LoginContract ==
    /\ \A e \in Emails, p \in Passwords :
          LET r == LoginResult(users, e, p)
              match == {u \in users : u.email = e /\ IsHashOf(u.password, p)}
          IN IF match # {}
             THEN /\ r.status = 200
                  /\ DOMAIN r.body = {"id", "name", "email"}
                  /\ \E u \in match :
                        r.body.id = u._id /\ r.body.name = u.name /\ r.body.email = u.email
             ELSE /\ r.status = 401
                  /\ \A e2 \in Emails, p2 \in Passwords :
                        LoginResult(users, e2, p2).status # 200
                        => LoginResult(users, e2, p2) = r
    /\ last.op = "login" =>
          \E e \in Emails, p \in Passwords :
             LET r == LoginResult(users, e, p)
             IN last.status = r.status /\ last.body = r.body

\* A login has just succeeded while another email is unknown.
C5_Witness ==
    /\ last.op = "login"
    /\ last.status = 200
    /\ \E e \in Emails : FindOneByEmail(users, e) = Null

\* C6: ListEvents(userId) answers with the stored Events of that userId, each
\* once and no other, in ascending order of dateTime, and changes nothing
\* stored.
C6_ListEventsSortedAndExact ==
    [][last'.op = "listEvents" =>
       /\ users' = users
       /\ events' = events
       /\ pending' = pending
       /\ \A u \in UserIds :
             ListEvents(u) =>
                LET q == last'.body
                    own == {e \in events : e.userId = u}
                IN /\ Len(q) = Cardinality(own)
                   /\ {q[i] : i \in 1..Len(q)} = own
                   /\ \A i, j \in 1..Len(q) : i < j => q[i].dateTime <= q[j].dateTime]_vars

\* The later event was created first and is listed second.
C6_Witness ==
    /\ last.op = "listEvents"
    /\ Len(last.body) = 2
    /\ last.body[1].dateTime < last.body[2].dateTime
    /\ last.body[1]._id > last.body[2]._id

====
